---- MODULE Spec2Model ----
(***************************************************************************)
(* A model of the scrapy-redis crawl frontier: the Scheduler, the key      *)
(* resolver, the Redis stats collector and the simple retry middleware,    *)
(* run by several worker processes against one shared Redis server.        *)
(*                                                                         *)
(* Every action is one backing-store call of a handler together with the   *)
(* local computation around it, so that the interleavings of the workers'  *)
(* store calls are the behaviours of the model.  The queue and dupefilter  *)
(* classes (scrapy_redis.queue, scrapy_redis.dupefilter) are not among the *)
(* source files; they are modelled from the design document's contracts.   *)
(***************************************************************************)
EXTENDS Integers, Sequences, FiniteSets, TLC

(***************************************************************************)
(* Bounds of the model.                                                    *)
(***************************************************************************)
\* number of requests the engines create (retry copies are not counted)
MaxTasks == 2
\* number of requests the engine creates in the ordering scenario
MaxOrderTasks == 4
\* number of requests the engines create in the lease scenario
MaxLeaseTasks == 1
\* number of requests the engines create in the namespace scenarios
MaxKeyTasks == 2
\* number of requests the engines create over a run and the run that resumes it
MaxResumeTasks == 4
\* number of clock ticks
MaxTicks == 2
\* number of requests the engines create in the retry scenario
MaxRetryTasks == 2
\* number of requests the engines create in the scenario of the crawl running dry
MaxLiveTasks == 2

Workers == {"w1", "w2", "w3"}
Fps == {1, 2}
Priorities == {0, 5}
OrderPriorities == {1, 3, 5}
SpiderNames == {"s1", "s2"}

(***************************************************************************)
(* Python values.                                                          *)
(***************************************************************************)
\* None, where a string is expected
None == "<None>"
\* truth value of an optional string: None and "" are false
Truthy(s) == s # None /\ s # ""
\* no function of utils.py has been called, nothing has come of a call
NoCall == [op |-> "none"]
NoResult == [kind |-> "none"]
\* the retry middleware has not been called
NoAnswer == [op |-> "none"]
\* None, where a request is expected
NoRequest == [id |-> 0, fp |-> 0, priority |-> 0, dont_filter |-> FALSE, retry_count |-> 0]

(***************************************************************************)
(* defaults.py                                                             *)
(***************************************************************************)
Lit(s) == [kind |-> "lit", text |-> s]
Ph(s) == [kind |-> "ph", text |-> s]

STATS_KEY == <<Ph("spider"), Lit(":stats")>>
JOB_SCOPED_STATS_KEY == <<Ph("job_id"), Lit(":"), Ph("spider"), Lit(":stats")>>
JOB_SCOPED_SCHEDULER_QUEUE_KEY == <<Ph("job_id"), Lit(":"), Ph("spider"), Lit(":requests")>>
JOB_SCOPED_SCHEDULER_DUPEFILTER_KEY == <<Ph("job_id"), Lit(":"), Ph("spider"), Lit(":dupefilter")>>
SCHEDULER_QUEUE_KEY == <<Ph("spider"), Lit(":requests")>>
\* the default queue class set to the first-in-first-out queue
FifoQueueClass == "scrapy_redis.queue.FifoQueue"
SCHEDULER_QUEUE_CLASS == "scrapy_redis.queue.PriorityQueue"
SCHEDULER_DUPEFILTER_KEY == <<Ph("spider"), Lit(":dupefilter")>>
REQUEST_LEASE_SECONDS == 120
RETRY_SIMPLE_MAX == 3
RETRY_PRIORITY_ADJUST == -10
RETRY_HTTP_CODES == {500, 502, 503, 504, 408, 429}

VARIABLES
    \* the Redis server: sorted sets / lists, sets and hashes by key
    zset, dfset, hash,
    \* per worker: the run's settings and environment
    cfg,
    \* per worker: position in the handler that is running
    pc,
    \* per worker: Scheduler.queue and Scheduler.df (the keys they are bound to)
    queue, df,
    \* per worker: the handler's local variable `request`
    req,
    \* per worker: what the last handler returned
    lastRet,
    \* per worker: requests handed to the engine and not yet answered
    inflight,
    \* the next request identity the engines hand out
    nextId,
    \* the clock, in seconds
    now,
    \* history: the priority each request was created with
    origPriority,
    \* history: when each request identity was last popped
    poppedAt,
    \* history: per worker, when it last called next_request
    calledAt,
    \* history: the requests popped since the last push; where hand-outs are counted,
    \* per request identity the times it was popped
    popLog,
    \* history: per fingerprint, the first request enqueue_request was asked for
    \* without dedup opt-out
    firstAsk,
    \* a call of a function of utils.py: its arguments, and what came of it
    call, result,
    \* per worker: the last call of the retry middleware and what it returns to the
    \* downloader's middleware chain
    mwRet,
    \* per worker: the arguments and local values of its call of the stats collector
    frame

vars == <<zset, dfset, hash, cfg, pc, queue, df, req, lastRet, inflight,
          nextId, now, origPriority, poppedAt, calledAt, popLog, firstAsk, call, result,
          mwRet, frame>>
store == <<zset, dfset, hash>>
history == <<origPriority, poppedAt, calledAt, popLog, firstAsk>>
pure == <<call, result>>

(***************************************************************************)
(* utils.py: the key resolver.                                             *)
(***************************************************************************)
\* the text of a template, placeholders unexpanded
RECURSIVE TemplateText(_)
TemplateText(template) ==
    IF template = <<>> THEN ""
    ELSE LET t == Head(template)
         IN  (IF t.kind = "ph" THEN "%(" \o t.text \o ")s" ELSE t.text)
             \o TemplateText(Tail(template))

\* template % params, every placeholder of the template being a key of params
RECURSIVE Format(_, _)
Format(template, params) ==
    IF template = <<>> THEN ""
    ELSE LET t == Head(template)
         IN  (IF t.kind = "ph" THEN params[t.text] ELSE t.text)
             \o Format(Tail(template), params)

\* the params dict expand_key_template builds
KeyParams(spider_name, job_id, time) ==
    LET names == (IF Truthy(spider_name) THEN {"spider", "name"} ELSE {})
                 \cup (IF Truthy(job_id) THEN {"job_id"} ELSE {})
                 \cup {"timestamp"}
    IN  [n \in names |-> CASE n = "spider" -> spider_name
                           [] n = "name" -> spider_name
                           [] n = "job_id" -> job_id
                           [] OTHER -> ToString(time)]

\* the expansion without the `except KeyError`: the error takes the place of the key
expand_key_template_raises(template, spider_name, job_id, time) ==
    LET params == KeyParams(spider_name, job_id, time)
        missing == {i \in DOMAIN template :
                      template[i].kind = "ph" /\ template[i].text \notin DOMAIN params}
    IN  IF missing = {} THEN Format(template, params)
        ELSE "KeyError: " \o template[CHOOSE i \in missing : TRUE].text

expand_key_template(template, spider_name, job_id, time) ==
    LET params == KeyParams(spider_name, job_id, time)
        missing == {i \in DOMAIN template :
                      template[i].kind = "ph" /\ template[i].text \notin DOMAIN params}
    IN  IF missing = {} THEN Format(template, params)
        ELSE TemplateText(template)

\* a caller evaluates expand_key_template(template, spider_name, job_id)
ExpandKeyTemplate ==
    /\ call.op = "expand_key_template"
    /\ result = NoResult
    /\ result' = [kind |-> "returned",
                  value |-> expand_key_template(call.template.tokens, call.spider_name,
                                                call.job_id, now)]
    /\ UNCHANGED <<store, cfg, pc, queue, df, req, lastRet, inflight, nextId, now,
                   history, call, mwRet, frame>>

\* settings: [USE_JOB_SCOPED_KEYS, JOB_ID] and the environment's SCRAPY_JOB
get_job_id_from_settings(settings) ==
    IF Truthy(settings.JOB_ID) THEN settings.JOB_ID ELSE settings.SCRAPY_JOB

\* the key resolver with `or` for `and`
get_effective_key_or(settings, legacy_key, job_scoped_key, spider_name, time) ==
    LET use_job_scoped == settings.USE_JOB_SCOPED_KEYS
        job_id == get_job_id_from_settings(settings)
    IN  IF use_job_scoped \/ Truthy(job_id)
        THEN expand_key_template(job_scoped_key, spider_name, job_id, time)
        ELSE expand_key_template(legacy_key, spider_name, job_id, time)

\* the key resolver with the job scoped branch expanding the legacy template
get_effective_key_legacy(settings, legacy_key, job_scoped_key, spider_name, time) ==
    expand_key_template(legacy_key, spider_name, get_job_id_from_settings(settings), time)

get_effective_key(settings, legacy_key, job_scoped_key, spider_name, time) ==
    LET use_job_scoped == settings.USE_JOB_SCOPED_KEYS
        job_id == get_job_id_from_settings(settings)
    IN  IF use_job_scoped /\ Truthy(job_id)
        THEN expand_key_template(job_scoped_key, spider_name, job_id, time)
        ELSE expand_key_template(legacy_key, spider_name, job_id, time)

(***************************************************************************)
(* The Redis server: a missing key reads as empty, and a key whose value   *)
(* becomes empty is deleted.                                               *)
(***************************************************************************)
Put(f, k, v) == [x \in DOMAIN f \cup {k} |-> IF x = k THEN v ELSE f[x]]
Del(f, k) == [x \in DOMAIN f \ {k} |-> f[x]]

ZGet(k) == IF k \in DOMAIN zset THEN zset[k] ELSE <<>>
SMembers(k) == IF k \in DOMAIN dfset THEN dfset[k] ELSE {}
HGetAll(k) == IF k \in DOMAIN hash THEN hash[k] ELSE <<>>
HExists(k, field) == field \in DOMAIN HGetAll(k)

(***************************************************************************)
(* scrapy_redis.dupefilter and scrapy_redis.queue, from their contracts.   *)
(***************************************************************************)
\* RedisDupeFilter.from_spider: the dedup set's key, resolved like the queue's
DupeFilterFromSpider(settings, spider_name, time) ==
    get_effective_key(settings, SCHEDULER_DUPEFILTER_KEY,
                      JOB_SCOPED_SCHEDULER_DUPEFILTER_KEY, spider_name, time)

\* request_seen: one atomic test-and-insert; the set afterwards
DupeFilterAdded(key, request) == SMembers(key) \cup {request.fp}
\* request_seen: its answer, true when the fingerprint was already there
request_seen(key, request) == request.fp \in SMembers(key)

\* push: the queue keeps its entries in the order they were pushed
QueuePushed(q, request) == Append(q, request)

\* pop: the position of the entry handed out
HighestPriority(q) == CHOOSE p \in {q[i].priority : i \in DOMAIN q} :
                         \A i \in DOMAIN q : q[i].priority <= p
PopIndex(cls, q) ==
    CASE cls = "scrapy_redis.queue.PriorityQueue" ->
           CHOOSE i \in DOMAIN q :
              /\ q[i].priority = HighestPriority(q)
              /\ \A j \in DOMAIN q : q[j].priority = HighestPriority(q) => i <= j
      [] cls = "scrapy_redis.queue.FifoQueue" -> 1
      [] cls = "scrapy_redis.queue.LifoQueue" -> Len(q)

RemoveAt(q, i) == SubSeq(q, 1, i - 1) \o SubSeq(q, i + 1, Len(q))

(***************************************************************************)
(* What a handler returned.                                                *)
(***************************************************************************)
Returned(op, ok, request) == [op |-> op, ok |-> ok, request |-> request]
NothingReturned == Returned("none", FALSE, NoRequest)

(***************************************************************************)
(* scheduler.py                                                            *)
(***************************************************************************)
\* Scheduler.__init__: self.job_id = job_id or os.environ.get('SCRAPY_JOB')
SchedulerJobId(w) == IF Truthy(cfg[w].job_id) THEN cfg[w].job_id ELSE cfg[w].SCRAPY_JOB

\* load_object(self.queue_cls)(server=..., spider=..., key=..., serializer=...): the
\* queue is constructed, or the exception the import or the call raises
QueueConstruction(queue_cls) ==
    CASE queue_cls \in {"scrapy_redis.queue.PriorityQueue", "scrapy_redis.queue.FifoQueue",
                        "scrapy_redis.queue.LifoQueue"} -> "constructed"
      \* a class whose constructor takes no such arguments
      [] queue_cls = "builtins.object" -> "TypeError"
      \* a module that has no such attribute
      [] queue_cls = "scrapy_redis.queue.NoSuchQueue" -> "NameError"
      \* no such module
      [] queue_cls = "scrapy_redis.no_such_module.Queue" -> "ModuleNotFoundError"

\* a handler raised: the exception's class and the class path its message carries
Raised(op, error, names) ==
    [op |-> op, ok |-> FALSE, request |-> NoRequest, error |-> error, names |-> names]

\* Scheduler.open, `except TypeError`: what leaves open when the construction raised
OpenFailure(w, error) ==
    IF error = "TypeError"
    THEN Raised("open:raised", "ValueError", cfg[w].queue_cls)
    ELSE Raised("open:raised", error, None)

\* Scheduler.open: the queue and the dupefilter are bound to their keys, unless the
\* construction of the queue raises and open with it
Open(w) ==
    /\ pc[w] = "new"
    /\ IF QueueConstruction(cfg[w].queue_cls) = "constructed"
       THEN /\ queue' = [queue EXCEPT ![w] =
                           get_effective_key(cfg[w], SCHEDULER_QUEUE_KEY,
                                             JOB_SCOPED_SCHEDULER_QUEUE_KEY, cfg[w].spider, now)]
            /\ df' = [df EXCEPT ![w] = DupeFilterFromSpider(cfg[w], cfg[w].spider, now)]
            /\ pc' = [pc EXCEPT ![w] =
                        IF cfg[w].flush_on_start THEN "open_flush_df" ELSE "idle"]
            /\ UNCHANGED lastRet
       ELSE /\ lastRet' = [lastRet EXCEPT ![w] =
                             OpenFailure(w, QueueConstruction(cfg[w].queue_cls))]
            /\ pc' = [pc EXCEPT ![w] = "idle"]
            /\ UNCHANGED <<queue, df>>
    /\ UNCHANGED <<store, cfg, pure, mwRet, frame, req, inflight, nextId, now, history>>

\* Scheduler.__len__
SchedulerLen(w) == Len(ZGet(queue[w]))

\* has_pending_requests answering true whatever the length
has_pending_requests_always(w) == SchedulerLen(w) >= 0

\* Scheduler.has_pending_requests
has_pending_requests(w) == SchedulerLen(w) > 0

\* the engine calls Scheduler.has_pending_requests
HasPending(w) ==
    /\ pc[w] = "idle"
    /\ queue[w] # None
    /\ lastRet' = [lastRet EXCEPT ![w] =
                     Returned("has_pending_requests", has_pending_requests(w), NoRequest)]
    /\ UNCHANGED <<store, cfg, pure, mwRet, frame, pc, queue, df, req, inflight, nextId, now, history>>

\* the engine calls Scheduler.enqueue_request with a request the spider made
EngineEnqueue(w, fp, priority, dont_filter) ==
    /\ pc[w] = "idle"
    /\ LET request == [id |-> nextId, fp |-> fp, priority |-> priority,
                       dont_filter |-> dont_filter, retry_count |-> 0]
       IN  /\ req' = [req EXCEPT ![w] = request]
           /\ origPriority' = Put(origPriority, nextId, priority)
           /\ firstAsk' = IF ~dont_filter /\ fp \notin DOMAIN firstAsk
                          THEN Put(firstAsk, fp, nextId) ELSE firstAsk
    /\ nextId' = nextId + 1
    /\ pc' = [pc EXCEPT ![w] = "enq_seen"]
    /\ lastRet' = [lastRet EXCEPT ![w] = NothingReturned]
    /\ UNCHANGED <<store, cfg, pure, mwRet, frame, queue, df, inflight, now, poppedAt, calledAt, popLog>>

\* enqueue_request asks the dupefilter unless the request opts out
AsksDupeFilter(request) == ~request.dont_filter

\* the duplicate test with the opt-out flag read the wrong way round
RejectsDuplicateInverted(request, seen) == request.dont_filter /\ seen

\* enqueue_request, the duplicate test: the dupefilter's answer rejects the request
RejectsDuplicate(request, seen) == ~request.dont_filter /\ seen

\* Scheduler.enqueue_request, up to the dupefilter's answer
EnqueueSeen(w) ==
    /\ pc[w] = "enq_seen"
    /\ AsksDupeFilter(req[w]) => df[w] # None
    /\ LET request == req[w]
           seen == request_seen(df[w], request)
       IN  /\ dfset' = IF AsksDupeFilter(request)
                       THEN Put(dfset, df[w], DupeFilterAdded(df[w], request))
                       ELSE dfset
           /\ IF RejectsDuplicate(request, seen)
              THEN /\ pc' = [pc EXCEPT ![w] = "idle"]
                   /\ lastRet' = [lastRet EXCEPT ![w] =
                                    Returned("enqueue_request", FALSE, request)]
                   /\ req' = [req EXCEPT ![w] = NoRequest]
              ELSE /\ pc' = [pc EXCEPT ![w] =
                               IF cfg[w].stats THEN "enq_hexists" ELSE "enq_push"]
                   /\ UNCHANGED <<lastRet, req>>
    /\ UNCHANGED <<zset, hash, cfg, pure, mwRet, frame, queue, df, inflight, nextId, now, history>>

\* Scheduler.enqueue_request, the push and the return
EnqueuePush(w) ==
    /\ pc[w] = "enq_push"
    /\ queue[w] # None
    /\ zset' = Put(zset, queue[w], QueuePushed(ZGet(queue[w]), req[w]))
    /\ pc' = [pc EXCEPT ![w] = "idle"]
    /\ lastRet' = [lastRet EXCEPT ![w] = Returned("enqueue_request", TRUE, req[w])]
    /\ req' = [req EXCEPT ![w] = NoRequest]
    /\ UNCHANGED <<dfset, hash, cfg, pure, mwRet, frame, queue, df, inflight, nextId, now,
                   origPriority, poppedAt, calledAt, firstAsk>>

\* Scheduler.enqueue_request, a server call of it failing: the call has no effect on
\* the server and its exception leaves enqueue_request, which has no handler
EnqueueRaises(w, at) ==
    /\ pc[w] = at
    /\ pc' = [pc EXCEPT ![w] = "idle"]
    /\ lastRet' = [lastRet EXCEPT ![w] = Returned("enqueue_request:raised", FALSE, req[w])]
    /\ req' = [req EXCEPT ![w] = NoRequest]
    /\ UNCHANGED <<store, cfg, pure, mwRet, frame, queue, df, inflight, nextId, now, history>>

\* Scheduler.next_request is called
NextRequestCall(w) ==
    /\ pc[w] = "idle"
    /\ queue[w] # None
    /\ pc' = [pc EXCEPT ![w] = "nr_pop"]
    /\ lastRet' = [lastRet EXCEPT ![w] = NothingReturned]
    /\ calledAt' = [calledAt EXCEPT ![w] = now]
    /\ UNCHANGED <<store, cfg, pure, mwRet, frame, queue, df, req, inflight, nextId, now,
                   origPriority, poppedAt, popLog, firstAsk>>

\* next_request returns `request` to the engine
NextRequestReturns(w, request) ==
    /\ pc' = [pc EXCEPT ![w] = "idle"]
    /\ lastRet' = [lastRet EXCEPT ![w] =
                     Returned("next_request", request # NoRequest, request)]
    /\ req' = [req EXCEPT ![w] = NoRequest]
    /\ inflight' = [inflight EXCEPT ![w] =
                      IF request # NoRequest THEN @ \cup {request} ELSE @]

\* the pop giving up at once, whatever the timeout
PopTimedOutAtOnce(w) == TRUE

\* queue.pop(block_pop_timeout) with block_pop_timeout = self.idle_before_close: the
\* wait for an entry is over
PopTimedOut(w) == now >= calledAt[w] + cfg[w].idle_before_close

\* Scheduler.next_request, the pop: an entry, or nothing when the timeout passes
QueuePop(w) ==
    /\ pc[w] = "nr_pop"
    /\ LET q == ZGet(queue[w])
       IN  IF q = <<>>
           THEN /\ PopTimedOut(w)
                /\ NextRequestReturns(w, NoRequest)
                /\ UNCHANGED <<zset, poppedAt>>
           ELSE LET i == PopIndex(cfg[w].queue_cls, q)
                    rest == RemoveAt(q, i)
                IN  /\ zset' = IF rest = <<>> THEN Del(zset, queue[w])
                               ELSE Put(zset, queue[w], rest)
                    /\ poppedAt' = Put(poppedAt, q[i].id, now)
                    /\ IF cfg[w].stats
                       THEN /\ pc' = [pc EXCEPT ![w] = "nr_hexists"]
                            /\ req' = [req EXCEPT ![w] = q[i]]
                            /\ UNCHANGED <<lastRet, inflight>>
                       ELSE NextRequestReturns(w, q[i])
    /\ UNCHANGED <<dfset, hash, cfg, pure, mwRet, frame, queue, df, nextId, now, origPriority, calledAt,
                   firstAsk>>

(***************************************************************************)
(* stats.py                                                                *)
(***************************************************************************)
ENQUEUED == "scheduler/enqueued/redis"
DEQUEUED == "scheduler/dequeued/redis"

\* RedisStatsCollector._get_key
StatsKey(w) ==
    get_effective_key(cfg[w], STATS_KEY, JOB_SCOPED_STATS_KEY, cfg[w].spider, now)

\* RedisStatsCollector.get_value
get_value(w, field, default) ==
    IF HExists(StatsKey(w), field) THEN HGetAll(StatsKey(w))[field] ELSE default

\* RedisStatsCollector.set_value: HSET
HSet(k, field, value) == Put(hash, k, Put(HGetAll(k), field, value))

\* HINCRBY: a missing field counts from zero
HIncrBy(k, field, count) ==
    Put(hash, k, Put(HGetAll(k), field,
                     (IF HExists(k, field) THEN HGetAll(k)[field] ELSE 0) + count))

\* inc_value, the test: is the counter there
IncValueHExists(w, at, field) ==
    /\ pc[w] = at \o "_hexists"
    /\ pc' = [pc EXCEPT ![w] = IF ~HExists(StatsKey(w), field)
                               THEN at \o "_hset" ELSE at \o "_hincrby"]

\* inc_value, set_value(key, start) with start = 0
IncValueHSet(w, at, field) ==
    /\ pc[w] = at \o "_hset"
    /\ hash' = HSet(StatsKey(w), field, 0)
    /\ pc' = [pc EXCEPT ![w] = at \o "_hincrby"]

\* inc_value, the increment by count = 1
IncValueHIncrBy(w, at, field) ==
    /\ pc[w] = at \o "_hincrby"
    /\ hash' = HIncrBy(StatsKey(w), field, 1)

\* enqueue_request: stats.inc_value("scheduler/enqueued/redis")
EnqueueStatsHExists(w) ==
    /\ IncValueHExists(w, "enq", ENQUEUED)
    /\ UNCHANGED <<store, cfg, pure, mwRet, frame, queue, df, req, lastRet, inflight, nextId, now, history>>

EnqueueStatsHSet(w) ==
    /\ IncValueHSet(w, "enq", ENQUEUED)
    /\ UNCHANGED <<zset, dfset, cfg, pure, mwRet, frame, queue, df, req, lastRet, inflight, nextId, now, history>>

EnqueueStatsHIncrBy(w) ==
    /\ IncValueHIncrBy(w, "enq", ENQUEUED)
    /\ pc' = [pc EXCEPT ![w] = "enq_push"]
    /\ UNCHANGED <<zset, dfset, cfg, pure, mwRet, frame, queue, df, req, lastRet, inflight, nextId, now, history>>

\* next_request: stats.inc_value("scheduler/dequeued/redis"), then the return
DequeueStatsHExists(w) ==
    /\ IncValueHExists(w, "nr", DEQUEUED)
    /\ UNCHANGED <<store, cfg, pure, mwRet, frame, queue, df, req, lastRet, inflight, nextId, now, history>>

DequeueStatsHSet(w) ==
    /\ IncValueHSet(w, "nr", DEQUEUED)
    /\ UNCHANGED <<zset, dfset, cfg, pure, mwRet, frame, queue, df, req, lastRet, inflight, nextId, now, history>>

DequeueStatsHIncrBy(w) ==
    /\ IncValueHIncrBy(w, "nr", DEQUEUED)
    /\ NextRequestReturns(w, req[w])
    /\ UNCHANGED <<zset, dfset, cfg, pure, mwRet, frame, queue, df, nextId, now, history>>

\* a component calls RedisStatsCollector.max_value(key, value)
MaxValueCall(w, key, value) ==
    /\ pc[w] = "idle"
    /\ frame' = [frame EXCEPT ![w] = [op |-> "max_value", key |-> key, value |-> value,
                                      current |-> None]]
    /\ pc' = [pc EXCEPT ![w] = "max_hexists"]
    /\ lastRet' = [lastRet EXCEPT ![w] = NothingReturned]
    /\ UNCHANGED <<store, cfg, pure, mwRet, queue, df, req, inflight, nextId, now, history>>

\* max_value, get_value(key, value): the test, and the default when the counter is
\* not there
MaxValueHExists(w) ==
    /\ pc[w] = "max_hexists"
    /\ IF HExists(StatsKey(w), frame[w].key)
       THEN /\ pc' = [pc EXCEPT ![w] = "max_hget"]
            /\ UNCHANGED frame
       ELSE /\ pc' = [pc EXCEPT ![w] = "max_hset"]
            /\ frame' = [frame EXCEPT ![w].current = frame[w].value]
    /\ UNCHANGED <<store, cfg, pure, mwRet, queue, df, req, lastRet, inflight, nextId, now,
                   history>>

\* max_value, get_value(key, value): the read of the counter that is there
MaxValueHGet(w) ==
    /\ pc[w] = "max_hget"
    /\ HExists(StatsKey(w), frame[w].key)
    /\ frame' = [frame EXCEPT ![w].current = HGetAll(StatsKey(w))[frame[w].key]]
    /\ pc' = [pc EXCEPT ![w] = "max_hset"]
    /\ UNCHANGED <<store, cfg, pure, mwRet, queue, df, req, lastRet, inflight, nextId, now,
                   history>>

\* max_value, set_value(key, max(current, value)), and the return
MaxValueHSet(w) ==
    /\ pc[w] = "max_hset"
    /\ hash' = HSet(StatsKey(w), frame[w].key,
                    IF frame[w].current >= frame[w].value
                    THEN frame[w].current ELSE frame[w].value)
    /\ pc' = [pc EXCEPT ![w] = "idle"]
    /\ lastRet' = [lastRet EXCEPT ![w] = Returned("max_value", TRUE, NoRequest)]
    /\ UNCHANGED <<zset, dfset, cfg, pure, mwRet, frame, queue, df, req, inflight, nextId,
                   now, history>>

(***************************************************************************)
(* scheduler.py: flush and close                                           *)
(***************************************************************************)
\* close flushing when persistence was requested, and only then
ClosePersistInverted(w) ==
    /\ pc[w] = "idle"
    /\ cfg[w].persist => df[w] # None
    /\ pc' = [pc EXCEPT ![w] = IF cfg[w].persist THEN "close_flush_df" ELSE "closed"]
    /\ UNCHANGED <<store, cfg, pure, mwRet, frame, queue, df, req, lastRet, inflight, nextId, now, history>>

\* Scheduler.close
Close(w) ==
    /\ pc[w] = "idle"
    /\ ~cfg[w].persist => df[w] # None
    /\ pc' = [pc EXCEPT ![w] = IF ~cfg[w].persist THEN "close_flush_df" ELSE "closed"]
    /\ UNCHANGED <<store, cfg, pure, mwRet, frame, queue, df, req, lastRet, inflight, nextId, now, history>>

\* Scheduler.flush: self.df.clear()
FlushDf(w) ==
    /\ pc[w] \in {"open_flush_df", "close_flush_df"}
    /\ dfset' = Del(dfset, df[w])
    /\ pc' = [pc EXCEPT ![w] = IF pc[w] = "open_flush_df"
                               THEN "open_flush_queue" ELSE "close_flush_queue"]
    /\ UNCHANGED <<zset, hash, cfg, pure, mwRet, frame, queue, df, req, lastRet, inflight, nextId, now, history>>

\* Scheduler.flush: self.queue.clear()
FlushQueue(w) ==
    /\ pc[w] \in {"open_flush_queue", "close_flush_queue"}
    /\ zset' = Del(zset, queue[w])
    /\ pc' = [pc EXCEPT ![w] = IF pc[w] = "open_flush_queue" THEN "idle" ELSE "closed"]
    /\ UNCHANGED <<dfset, hash, cfg, pure, mwRet, frame, queue, df, req, lastRet, inflight, nextId, now, history>>

(***************************************************************************)
(* retry_middleware.py                                                     *)
(***************************************************************************)
\* the transient exceptions with ValueError among them
ExceptionsToRetryAndValueError == {"TimeoutError", "ConnectionLost", "ValueError"}

EXCEPTIONS_TO_RETRY == {"TimeoutError", "DNSLookupError", "ConnectionRefusedError",
                        "ConnectionDone", "ConnectError", "ConnectionLost"}

\* RedisRetryStatsCollector.retry_gave_up: the counter it would increment
RETRY_GAVE_UP == "retry/gave_up"

RECURSIVE Pow2(_)
Pow2(n) == IF n <= 0 THEN 1 ELSE 2 * Pow2(n - 1)

\* _retry: the copy that is put back
RetryRequest(request) ==
    LET retry_count == request.retry_count + 1
        original_priority == request.priority
        backoff_factor == Pow2(retry_count - 1)
    IN  [request EXCEPT !.retry_count = retry_count,
                        !.priority = original_priority
                                     + (RETRY_PRIORITY_ADJUST * backoff_factor)]

\* _retry giving up one failure later
GivesUpLate(request) == request.retry_count > RETRY_SIMPLE_MAX

\* _retry: the retry count has reached the maximum
GivesUp(request) == request.retry_count >= RETRY_SIMPLE_MAX

\* _retry: `if self.scheduler`, the truth value of an object that has __len__
SchedulerTruthy(w) == SchedulerLen(w) # 0

\* SimpleRedisRetryMiddleware._retry, up to the call of enqueue_request
Retry(w, request) ==
    IF GivesUp(request)
    THEN /\ lastRet' = [lastRet EXCEPT ![w] = Returned("_retry:gave_up", FALSE, request)]
         /\ UNCHANGED <<pc, req>>
    ELSE IF SchedulerTruthy(w)
         THEN /\ req' = [req EXCEPT ![w] = RetryRequest(request)]
              /\ pc' = [pc EXCEPT ![w] = "enq_seen"]
              /\ lastRet' = [lastRet EXCEPT ![w] = NothingReturned]
         ELSE /\ lastRet' = [lastRet EXCEPT ![w] =
                               Returned("_retry:no_scheduler", FALSE, request)]
              /\ UNCHANGED <<pc, req>>

\* _retry returns None on each of its paths (lines 73 and 108)
RetryReturns == "None"

\* process_response: what it returns for a response of the given status; Python's
\* `a or b` is b when a is None
ProcessResponseReturns(status) ==
    IF status \in RETRY_HTTP_CODES
    THEN IF RetryReturns = "None" THEN "response" ELSE RetryReturns
    ELSE "response"

\* process_exception: what it returns for the given exception
ProcessExceptionReturns(exception) ==
    IF exception \in EXCEPTIONS_TO_RETRY \/ exception = "IgnoreRequest"
    THEN RetryReturns ELSE "None"

\* the call of a middleware method for `request` and what the method returns
Answered(op, request, cause, returns) ==
    [op |-> op, request |-> request, cause |-> cause, returns |-> returns]

\* SimpleRedisRetryMiddleware.process_response: what it does to the scheduler
ProcessResponseCall(w, request, status) ==
    /\ pc[w] = "idle"
    /\ request \in inflight[w]
    /\ inflight' = [inflight EXCEPT ![w] = @ \ {request}]
    /\ IF status \in RETRY_HTTP_CODES
       THEN Retry(w, request)
       ELSE /\ lastRet' = [lastRet EXCEPT ![w] =
                             Returned("process_response", TRUE, request)]
            /\ UNCHANGED <<pc, req>>
    /\ UNCHANGED <<store, cfg, pure, frame, queue, df, nextId, now, history>>

\* SimpleRedisRetryMiddleware.process_response, with what it returns on record
ProcessResponse(w, request, status) ==
    /\ ProcessResponseCall(w, request, status)
    /\ mwRet' = [mwRet EXCEPT ![w] =
                   Answered("process_response", request, status,
                            ProcessResponseReturns(status))]

\* SimpleRedisRetryMiddleware.process_exception
ProcessException(w, request, exception) ==
    /\ pc[w] = "idle"
    /\ request \in inflight[w]
    /\ inflight' = [inflight EXCEPT ![w] = @ \ {request}]
    /\ IF exception \in EXCEPTIONS_TO_RETRY \/ exception = "IgnoreRequest"
       THEN Retry(w, request)
       ELSE /\ lastRet' = [lastRet EXCEPT ![w] =
                             Returned("process_exception", FALSE, request)]
            /\ UNCHANGED <<pc, req>>
    /\ mwRet' = [mwRet EXCEPT ![w] =
                   Answered("process_exception", request, exception,
                            ProcessExceptionReturns(exception))]
    /\ UNCHANGED <<store, cfg, pure, frame, queue, df, nextId, now, history>>

(***************************************************************************)
(* The environment: a worker process dies, time passes.                    *)
(***************************************************************************)
Crash(w) ==
    /\ pc[w] \notin {"new", "closed", "crashed"}
    /\ pc' = [pc EXCEPT ![w] = "crashed"]
    /\ UNCHANGED <<store, cfg, pure, mwRet, frame, queue, df, req, lastRet, inflight, nextId, now, history>>

\* the seconds of one clock tick
TickSeconds == REQUEST_LEASE_SECONDS \div 2

Tick ==
    /\ now < MaxTicks * TickSeconds
    /\ now' = now + TickSeconds
    /\ UNCHANGED <<store, cfg, pure, mwRet, frame, pc, queue, df, req, lastRet, inflight, nextId, history>>

(***************************************************************************)
(* Specifications.                                                         *)
(***************************************************************************)
\* a run's settings, its environment and the Scheduler's constructor arguments (job_id
\* is the constructor's argument, JOB_ID the setting)
Settings(use_job_scoped, job_id, env_job, spider, persist, flush_on_start, stats) ==
    [USE_JOB_SCOPED_KEYS |-> use_job_scoped, JOB_ID |-> job_id, SCRAPY_JOB |-> env_job,
     spider |-> spider, persist |-> persist, flush_on_start |-> flush_on_start,
     stats |-> stats, queue_cls |-> SCHEDULER_QUEUE_CLASS, idle_before_close |-> 0,
     job_id |-> None]

\* the settings with SCHEDULER_IDLE_BEFORE_CLOSE set
WithIdleBeforeClose(settings, seconds) == [settings EXCEPT !.idle_before_close = seconds]

\* the legacy single-run settings: no job id, no stats, nothing flushed
LegacySettings == Settings(FALSE, None, None, "s1", FALSE, FALSE, FALSE)

\* the state after the workers constructed their Scheduler, the server empty
InitWith(cfgs) ==
    /\ zset = <<>>
    /\ dfset = <<>>
    /\ hash = <<>>
    /\ cfg \in cfgs
    /\ pc = [w \in Workers |-> "new"]
    /\ queue = [w \in Workers |-> None]
    /\ df = [w \in Workers |-> None]
    /\ req = [w \in Workers |-> NoRequest]
    /\ lastRet = [w \in Workers |-> NothingReturned]
    /\ inflight = [w \in Workers |-> {}]
    /\ nextId = 1
    /\ now = 0
    /\ origPriority = <<>>
    /\ poppedAt = <<>>
    /\ calledAt = [w \in Workers |-> 0]
    /\ popLog = <<>>
    /\ firstAsk = <<>>
    /\ call = NoCall
    /\ result = NoResult
    /\ mwRet = [w \in Workers |-> NoAnswer]
    /\ frame = [w \in Workers |-> [op |-> "none"]]

StatusCodes == {200, 503}
Exceptions == {"ConnectionLost", "IgnoreRequest", "ValueError"}

\* the handlers of one worker, the engine creating at most `tasks` requests
Enqueues(w, tasks, priorities) ==
    \E fp \in Fps, priority \in priorities, dont_filter \in BOOLEAN :
        /\ nextId <= tasks
        /\ EngineEnqueue(w, fp, priority, dont_filter)

EnqueuePushes(w) == EnqueuePush(w) /\ UNCHANGED popLog
QueuePops(w) == QueuePop(w) /\ UNCHANGED popLog

Responses(w) ==
    \E request \in inflight[w], status \in StatusCodes : ProcessResponse(w, request, status)

Failures(w) ==
    \E request \in inflight[w], exception \in Exceptions :
        ProcessException(w, request, exception)

\* Two workers share one namespace; nothing is flushed.
Init == InitWith({[w \in Workers |-> LegacySettings]})

Next ==
    \E w \in {"w1", "w2"} :
        \/ Open(w)
        \/ Enqueues(w, MaxTasks, Priorities)
        \/ EnqueueSeen(w)
        \/ EnqueuePushes(w)
        \/ NextRequestCall(w)
        \/ QueuePops(w)
        \/ Responses(w)
        \/ Failures(w)

Spec == Init /\ [][Next]_vars

\* Two workers race on enqueue_request and next_request; no request fails.
NextRace ==
    \E w \in {"w1", "w2"} :
        \/ Open(w)
        \/ Enqueues(w, MaxTasks, Priorities)
        \/ EnqueueSeen(w)
        \/ EnqueuePushes(w)
        \/ NextRequestCall(w)
        \/ QueuePops(w)

SpecRace == Init /\ [][NextRace]_vars

\* Three workers; a worker may die at any point, and time passes.
NextLease ==
    \/ \E w \in Workers :
          \/ Open(w)
          \/ Enqueues(w, MaxLeaseTasks, Priorities)
          \/ EnqueueSeen(w)
          \/ EnqueuePushes(w)
          \/ NextRequestCall(w)
          \/ QueuePops(w)
          \/ Crash(w)
    \/ Tick

SpecLease == Init /\ [][NextLease]_vars

\* One worker alone: its calls follow one another.
NextSeq ==
    \E w \in {"w1"} :
        \/ Open(w)
        \/ Enqueues(w, MaxTasks, Priorities)
        \/ EnqueueSeen(w)
        \/ EnqueuePushes(w)
        \/ NextRequestCall(w)
        \/ QueuePops(w)
        \/ Responses(w)
        \/ Failures(w)

SpecSeq == Init /\ [][NextSeq]_vars

\* One producer and consumer; the requests popped since the last push are logged.
OrderEnqueues(w) ==
    \E priority \in OrderPriorities, dont_filter \in BOOLEAN :
        /\ nextId <= MaxOrderTasks
        /\ EngineEnqueue(w, 1, priority, dont_filter)

EnqueuePushLogged(w) == EnqueuePush(w) /\ popLog' = <<>>

QueuePopLogged(w) ==
    /\ QueuePop(w)
    /\ popLog' = IF lastRet'[w].ok THEN Append(popLog, lastRet'[w].request) ELSE popLog

NextOrder ==
    \E w \in {"w1"} :
        \/ Open(w)
        \/ OrderEnqueues(w)
        \/ EnqueueSeen(w)
        \/ EnqueuePushLogged(w)
        \/ NextRequestCall(w)
        \/ QueuePopLogged(w)

SpecOrder == Init /\ [][NextOrder]_vars


\* One run whose settings and environment are any of the combinations; it opens,
\* enqueues, pops, counts and closes.
JobIds == {None, "", "j1", "j2"}
EnvJobIds == {None, "", "j1", "j3"}

KeySettings ==
    {Settings(use_job_scoped, job_id, env_job, spider, FALSE, flush_on_start, TRUE) :
        use_job_scoped \in BOOLEAN, job_id \in JobIds, env_job \in EnvJobIds,
        spider \in SpiderNames, flush_on_start \in BOOLEAN}

InitKeys ==
    InitWith({c \in [Workers -> KeySettings \cup {LegacySettings}] :
                c["w1"] \in KeySettings /\ c["w2"] = LegacySettings /\ c["w3"] = LegacySettings})

KeyEnqueues(w) == nextId <= MaxKeyTasks /\ EngineEnqueue(w, 1, 0, FALSE)

Lifecycle(w) ==
    \/ Open(w)
    \/ FlushDf(w)
    \/ FlushQueue(w)
    \/ KeyEnqueues(w)
    \/ EnqueueSeen(w)
    \/ EnqueueStatsHExists(w)
    \/ EnqueueStatsHSet(w)
    \/ EnqueueStatsHIncrBy(w)
    \/ EnqueuePushes(w)
    \/ NextRequestCall(w)
    \/ QueuePops(w)
    \/ DequeueStatsHExists(w)
    \/ DequeueStatsHSet(w)
    \/ DequeueStatsHIncrBy(w)
    \/ Close(w)

NextKeys == \E w \in {"w1"} : Lifecycle(w)

SpecKeys == InitKeys /\ [][NextKeys]_vars

\* Two runs against one server: the first job-scoped under job j1, the second
\* job-scoped or not, under the same or another job id and spider name.
JobSettings ==
    {Settings(use_job_scoped, job_id, None, spider, FALSE, flush_on_start, TRUE) :
        use_job_scoped \in BOOLEAN, job_id \in {"j1", "j2"},
        spider \in SpiderNames, flush_on_start \in BOOLEAN}

InitJobs ==
    InitWith({c \in [Workers -> JobSettings \cup {LegacySettings}] :
                /\ c["w1"] = Settings(TRUE, "j1", None, "s1", FALSE, FALSE, TRUE)
                /\ c["w2"] \in JobSettings
                /\ c["w3"] = LegacySettings})

NextJobs == \E w \in {"w1", "w2"} : Lifecycle(w)

SpecJobs == InitJobs /\ [][NextJobs]_vars

\* expand_key_template on its own: a template with its text and the placeholders
\* it names, a spider name or none, a job id or none, at some time of the clock.
KeyTemplates ==
    {[tokens |-> JOB_SCOPED_SCHEDULER_QUEUE_KEY, text |-> "%(job_id)s:%(spider)s:requests",
      names |-> {"job_id", "spider"}],
     [tokens |-> SCHEDULER_QUEUE_KEY, text |-> "%(spider)s:requests",
      names |-> {"spider"}],
     [tokens |-> <<Ph("name"), Lit(":items")>>, text |-> "%(name)s:items",
      names |-> {"name"}],
     [tokens |-> <<Ph("job_id"), Lit(":"), Ph("timestamp")>>, text |-> "%(job_id)s:%(timestamp)s",
      names |-> {"job_id", "timestamp"}],
     [tokens |-> <<Lit("requests")>>, text |-> "requests", names |-> {}]}

ExpandCalls ==
    {[op |-> "expand_key_template", template |-> template,
      spider_name |-> spider_name, job_id |-> job_id] :
        template \in KeyTemplates, spider_name \in {None, ""} \cup SpiderNames,
        job_id \in JobIds}

InitExpand ==
    /\ zset = <<>>
    /\ dfset = <<>>
    /\ hash = <<>>
    /\ cfg = [w \in Workers |-> LegacySettings]
    /\ pc = [w \in Workers |-> "new"]
    /\ queue = [w \in Workers |-> None]
    /\ df = [w \in Workers |-> None]
    /\ req = [w \in Workers |-> NoRequest]
    /\ lastRet = [w \in Workers |-> NothingReturned]
    /\ inflight = [w \in Workers |-> {}]
    /\ nextId = 1
    /\ now \in {0, TickSeconds}
    /\ origPriority = <<>>
    /\ poppedAt = <<>>
    /\ calledAt = [w \in Workers |-> 0]
    /\ popLog = <<>>
    /\ firstAsk = <<>>
    /\ call \in ExpandCalls
    /\ result = NoResult
    /\ mwRet = [w \in Workers |-> NoAnswer]
    /\ frame = [w \in Workers |-> [op |-> "none"]]

NextExpand == ExpandKeyTemplate

SpecExpand == InitExpand /\ [][NextExpand]_vars

\* Two workers of one run count their enqueues in the same hash; every request opts
\* out of dedup, so that each enqueue_request makes one inc_value call.
StatsSettings == Settings(FALSE, None, None, "s1", FALSE, FALSE, TRUE)

InitStats ==
    InitWith({c \in [Workers -> {StatsSettings, LegacySettings}] :
                c["w1"] = StatsSettings /\ c["w2"] = StatsSettings /\ c["w3"] = LegacySettings})

StatsEnqueues(w) == nextId <= MaxTasks /\ EngineEnqueue(w, 1, 0, TRUE)

NextStats ==
    \E w \in {"w1", "w2"} :
        \/ Open(w)
        \/ StatsEnqueues(w)
        \/ EnqueueSeen(w)
        \/ EnqueueStatsHExists(w)
        \/ EnqueueStatsHSet(w)
        \/ EnqueueStatsHIncrBy(w)
        \/ EnqueuePushes(w)

SpecStats == InitStats /\ [][NextStats]_vars

\* A run of worker w1, with or without persistence, and after its close a second
\* run of worker w2 in the same namespace, opened without flush on start.
ResumeSettings ==
    {Settings(FALSE, None, None, "s1", persist, FALSE, FALSE) : persist \in BOOLEAN}

InitResume ==
    InitWith({c \in [Workers -> ResumeSettings \cup {LegacySettings}] :
                /\ c["w1"] \in ResumeSettings
                /\ c["w2"] \in ResumeSettings
                /\ c["w3"] = LegacySettings})

ResumeEnqueues(w) ==
    \E fp \in Fps, dont_filter \in BOOLEAN :
        /\ nextId <= MaxResumeTasks
        /\ EngineEnqueue(w, fp, 0, dont_filter)

\* the second run starts once the first has closed
ResumeTurn(w) == w = "w2" => pc["w1"] = "closed"

\* the first run only fills the frontier, the second one also empties it
ResumePops(w) == w = "w2" /\ QueuePops(w)

NextResume ==
    \E w \in {"w1", "w2"} :
        \/ ResumeTurn(w) /\ Open(w)
        \/ ResumeEnqueues(w)
        \/ EnqueueSeen(w)
        \/ EnqueuePushes(w)
        \/ HasPending(w)
        \/ NextRequestCall(w)
        \/ ResumePops(w)
        \/ Close(w)
        \/ FlushDf(w)
        \/ FlushQueue(w)

SpecResume == InitResume /\ [][NextResume]_vars

\* One worker with stats attached; the server may fail the dedup check and the push.
InitFail ==
    InitWith({c \in [Workers -> {StatsSettings, LegacySettings}] :
                c["w1"] = StatsSettings /\ c["w2"] = LegacySettings /\ c["w3"] = LegacySettings})

FailEnqueues(w) ==
    \E fp \in Fps, dont_filter \in BOOLEAN :
        /\ nextId <= MaxTasks
        /\ EngineEnqueue(w, fp, 0, dont_filter)

SeenRaises(w) == AsksDupeFilter(req[w]) /\ EnqueueRaises(w, "enq_seen")
PushRaises(w) == EnqueueRaises(w, "enq_push")

NextFail ==
    \E w \in {"w1"} :
        \/ Open(w)
        \/ FailEnqueues(w)
        \/ EnqueueSeen(w)
        \/ SeenRaises(w)
        \/ EnqueueStatsHExists(w)
        \/ EnqueueStatsHSet(w)
        \/ EnqueueStatsHIncrBy(w)
        \/ EnqueuePushes(w)
        \/ PushRaises(w)
        \/ NextRequestCall(w)
        \/ QueuePops(w)
        \/ DequeueStatsHExists(w)
        \/ DequeueStatsHSet(w)
        \/ DequeueStatsHIncrBy(w)

SpecFail == InitFail /\ [][NextFail]_vars

\* A consumer with stats attached and some idle-before-close time, a producer beside
\* it, and the clock.
IdleSettings ==
    {WithIdleBeforeClose(StatsSettings, seconds) : seconds \in {0, TickSeconds, 2 * TickSeconds}}

InitIdle ==
    InitWith({c \in [Workers -> IdleSettings \cup {LegacySettings}] :
                c["w1"] \in IdleSettings /\ c["w2"] = LegacySettings /\ c["w3"] = LegacySettings})

IdleEnqueues(w) == nextId <= MaxTasks /\ EngineEnqueue(w, 1, 0, TRUE)

NextIdle ==
    \/ \E w \in {"w1", "w2"} : Open(w)
    \/ \E w \in {"w2"} :
          \/ IdleEnqueues(w)
          \/ EnqueueSeen(w)
          \/ EnqueuePushes(w)
    \/ \E w \in {"w1"} :
          \/ NextRequestCall(w)
          \/ QueuePops(w)
          \/ DequeueStatsHExists(w)
          \/ DequeueStatsHSet(w)
          \/ DequeueStatsHIncrBy(w)
    \/ Tick

SpecIdle == InitIdle /\ [][NextIdle]_vars

\* One worker with stats attached and the retry middleware; every request opts out
\* of dedup, so that its retry copies are admitted.
GiveUpEnqueues(w) ==
    \E fp \in Fps : nextId <= MaxTasks /\ EngineEnqueue(w, fp, 0, TRUE)

NextGiveUp ==
    \E w \in {"w1"} :
        \/ Open(w)
        \/ GiveUpEnqueues(w)
        \/ EnqueueSeen(w)
        \/ EnqueueStatsHExists(w)
        \/ EnqueueStatsHSet(w)
        \/ EnqueueStatsHIncrBy(w)
        \/ EnqueuePushes(w)
        \/ NextRequestCall(w)
        \/ QueuePops(w)
        \/ DequeueStatsHExists(w)
        \/ DequeueStatsHSet(w)
        \/ DequeueStatsHIncrBy(w)
        \/ Responses(w)
        \/ Failures(w)

SpecGiveUp == InitFail /\ [][NextGiveUp]_vars

\* One worker, with or without stats, whose SCHEDULER_QUEUE_CLASS names the default
\* queue, a class that cannot be called like a queue, or nothing that can be loaded;
\* the engine goes on calling enqueue_request whatever came of open.
OpenSettings ==
    {[settings EXCEPT !.queue_cls = path] :
        settings \in {StatsSettings, LegacySettings},
        path \in {SCHEDULER_QUEUE_CLASS, "scrapy_redis.queue.FifoQueue", "builtins.object",
                  "scrapy_redis.queue.NoSuchQueue", "scrapy_redis.no_such_module.Queue"}}

InitOpen ==
    InitWith({c \in [Workers -> OpenSettings \cup {LegacySettings}] :
                c["w1"] \in OpenSettings /\ c["w2"] = LegacySettings /\ c["w3"] = LegacySettings})

\* enqueue_request on a scheduler without dupefilter: None has no request_seen
EnqueueNoDupeFilter(w) ==
    AsksDupeFilter(req[w]) /\ df[w] = None /\ EnqueueRaises(w, "enq_seen")

\* enqueue_request on a scheduler without queue: it has no attribute `queue`
EnqueueNoQueue(w) == queue[w] = None /\ EnqueueRaises(w, "enq_push")

NextOpen ==
    \E w \in {"w1"} :
        \/ Open(w)
        \/ FailEnqueues(w)
        \/ EnqueueSeen(w)
        \/ EnqueueNoDupeFilter(w)
        \/ EnqueueStatsHExists(w)
        \/ EnqueueStatsHSet(w)
        \/ EnqueueStatsHIncrBy(w)
        \/ EnqueuePushes(w)
        \/ EnqueueNoQueue(w)
        \/ NextRequestCall(w)
        \/ QueuePops(w)
        \/ DequeueStatsHExists(w)
        \/ DequeueStatsHSet(w)
        \/ DequeueStatsHIncrBy(w)

SpecOpen == InitOpen /\ [][NextOpen]_vars

\* Two schedulers in job-scoped mode for one spider, each constructed with a job_id
\* argument or none, with the JOB_ID setting and SCRAPY_JOB set or not.
JobArgSettings ==
    {[Settings(TRUE, job_id_setting, env_job, "s1", FALSE, FALSE, FALSE)
         EXCEPT !.job_id = job_id] :
        job_id_setting \in {None, "j1"}, env_job \in {None, "j3"},
        job_id \in {None, "j1", "j2"}}

InitJobArgs ==
    InitWith({c \in [Workers -> JobArgSettings \cup {LegacySettings}] :
                c["w1"] \in JobArgSettings /\ c["w2"] \in JobArgSettings
                /\ c["w3"] = LegacySettings})

NextJobArgs ==
    \E w \in {"w1", "w2"} :
        \/ Open(w)
        \/ KeyEnqueues(w)
        \/ EnqueueSeen(w)
        \/ EnqueuePushes(w)
        \/ NextRequestCall(w)
        \/ QueuePops(w)

SpecJobArgs == InitJobArgs /\ [][NextJobArgs]_vars

\* Two workers share one namespace; a worker may die inside enqueue_request, after
\* the dupefilter's answer and before the push. Nothing is flushed, no one restarts.
CrashBeforePush(w) == pc[w] = "enq_push" /\ Crash(w)

NextCrash ==
    \E w \in {"w1", "w2"} :
        \/ Open(w)
        \/ FailEnqueues(w)
        \/ EnqueueSeen(w)
        \/ CrashBeforePush(w)
        \/ EnqueuePushes(w)
        \/ NextRequestCall(w)
        \/ QueuePops(w)

SpecCrash == Init /\ [][NextCrash]_vars

\* Two workers of one run keep the deepest request depth in the same hash.
\* The depth middleware keeps its counter request_depth_max with max_value.
MaxValueCalls(w) == \E value \in {1, 2, 3} : MaxValueCall(w, "request_depth_max", value)

NextMax ==
    \E w \in {"w1", "w2"} :
        \/ Open(w)
        \/ MaxValueCalls(w)
        \/ MaxValueHExists(w)
        \/ MaxValueHGet(w)
        \/ MaxValueHSet(w)

SpecMax == InitStats /\ [][NextMax]_vars

\* Two workers share one namespace; every request opts out of dedup, and any response
\* may come with status 200 or 503.
RetryEnqueues(w) == nextId <= MaxRetryTasks /\ EngineEnqueue(w, 1, 0, TRUE)

NextRetry ==
    \E w \in {"w1", "w2"} :
        \/ Open(w)
        \/ RetryEnqueues(w)
        \/ EnqueueSeen(w)
        \/ EnqueuePushes(w)
        \/ NextRequestCall(w)
        \/ QueuePops(w)
        \/ Responses(w)

SpecRetry == Init /\ [][NextRetry]_vars

\* Two workers share one namespace without persistence, each opened with or without
\* flush on start; they enqueue, pop and close in any order, and no one dies.
FlushSettings ==
    {Settings(FALSE, None, None, "s1", FALSE, flush_on_start, FALSE) :
        flush_on_start \in BOOLEAN}

InitFlush ==
    InitWith({c \in [Workers -> FlushSettings \cup {LegacySettings}] :
                c["w1"] \in FlushSettings /\ c["w2"] \in FlushSettings
                /\ c["w3"] = LegacySettings})

NextFlush ==
    \E w \in {"w1", "w2"} :
        \/ Open(w)
        \/ FailEnqueues(w)
        \/ EnqueueSeen(w)
        \/ EnqueuePushes(w)
        \/ NextRequestCall(w)
        \/ QueuePops(w)
        \/ Close(w)
        \/ FlushDf(w)
        \/ FlushQueue(w)

SpecFlush == InitFlush /\ [][NextFlush]_vars

\* A crawl picked up from the frontier an earlier persistent run left on the server:
\* MaxLiveTasks requests that opt out of the duplicate filter, none retried yet.  The
\* engine adds nothing; the only pushes are the retry middleware's.
InitLive ==
    /\ zset = ("s1:requests" :>
                [i \in 1..MaxLiveTasks |->
                    [id |-> i, fp |-> 1, priority |-> 0, dont_filter |-> TRUE,
                     retry_count |-> 0]])
    /\ dfset = <<>>
    /\ hash = <<>>
    /\ cfg = [w \in Workers |-> LegacySettings]
    /\ pc = [w \in Workers |-> "new"]
    /\ queue = [w \in Workers |-> None]
    /\ df = [w \in Workers |-> None]
    /\ req = [w \in Workers |-> NoRequest]
    /\ lastRet = [w \in Workers |-> NothingReturned]
    /\ inflight = [w \in Workers |-> {}]
    /\ nextId = MaxLiveTasks + 1
    /\ now = 0
    /\ origPriority = [i \in 1..MaxLiveTasks |-> 0]
    /\ poppedAt = <<>>
    /\ calledAt = [w \in Workers |-> 0]
    /\ popLog = <<>>
    /\ firstAsk = <<>>
    /\ call = NoCall
    /\ result = NoResult
    /\ mwRet = [w \in Workers |-> NoAnswer]
    /\ frame = [w \in Workers |-> [op |-> "none"]]

\* the pop, counting per task the times it was handed out
QueuePopCounted(w) ==
    /\ QueuePop(w)
    /\ popLog' = IF lastRet'[w].ok
                 THEN LET id == lastRet'[w].request.id
                      IN  Put(popLog, id, (IF id \in DOMAIN popLog THEN popLog[id] ELSE 0) + 1)
                 ELSE popLog

\* the responses, with no record kept of what process_response returned
LiveResponses(w) ==
    \E request \in inflight[w], status \in StatusCodes :
        ProcessResponseCall(w, request, status) /\ UNCHANGED mwRet

NextLive ==
    \E w \in {"w1", "w2"} :
        \/ Open(w)
        \/ EnqueueSeen(w)
        \/ EnqueuePushes(w)
        \/ NextRequestCall(w)
        \/ QueuePopCounted(w)
        \/ LiveResponses(w)

\* Each worker's reactor runs every callback that is ready: no step that stays
\* enabled is put off for ever.
FairLive ==
    \A w \in {"w1", "w2"} :
        /\ WF_vars(Open(w))
        /\ WF_vars(EnqueueSeen(w))
        /\ WF_vars(EnqueuePushes(w))
        /\ WF_vars(NextRequestCall(w))
        /\ WF_vars(QueuePopCounted(w))
        /\ WF_vars(LiveResponses(w))

SpecLive == InitLive /\ [][NextLive]_vars /\ FairLive

(***************************************************************************)
(* Claims.                                                                 *)
(***************************************************************************)
\* the frontier entries, of every key
Frontier == UNION {{zset[k][i] : i \in DOMAIN zset[k]} : k \in DOMAIN zset}
FrontierNext == UNION {{zset'[k][i] : i \in DOMAIN zset'[k]} : k \in DOMAIN zset'}

\* the last handler of w was enqueue_request for a request that does not opt out
EnqueueAnswered(w) ==
    lastRet[w].op = "enqueue_request" /\ ~lastRet[w].request.dont_filter

\* the request is the first one enqueue_request was asked for with its fingerprint
IsFirstAsk(request) ==
    request.retry_count = 0 /\ firstAsk[request.fp] = request.id

C2_AtMostOneAdmitted ==
    /\ \A w1, w2 \in Workers :
          (/\ w1 # w2
           /\ EnqueueAnswered(w1) /\ EnqueueAnswered(w2)
           /\ lastRet[w1].request.fp = lastRet[w2].request.fp)
            => ~(lastRet[w1].ok /\ lastRet[w2].ok)
    /\ \A k \in DOMAIN zset : \A i, j \in DOMAIN zset[k] :
          (/\ zset[k][i].fp = zset[k][j].fp
           /\ ~zset[k][i].dont_filter /\ ~zset[k][j].dont_filter)
            => i = j

\* the worker that called later won the race: its call returned true, the other's false
C2_Witness ==
    \E w1, w2 \in Workers :
        /\ w1 # w2
        /\ EnqueueAnswered(w1) /\ EnqueueAnswered(w2)
        /\ lastRet[w1].request.fp = lastRet[w2].request.fp
        /\ lastRet[w1].request.retry_count = 0 /\ lastRet[w2].request.retry_count = 0
        /\ lastRet[w1].request.id > lastRet[w2].request.id
        /\ lastRet[w1].ok /\ ~lastRet[w2].ok

\* C3: with one consumer and no push in between, next_request hands the requests
\* out by falling priority, and those of one priority in the order they were pushed;
\* pushes of priorities 5, 1, 5, 3 come back as the first 5, the second 5, 3, 1
C3_PriorityThenFifo ==
    /\ \A i, j \in DOMAIN popLog :
          i < j => \/ popLog[i].priority > popLog[j].priority
                   \/ /\ popLog[i].priority = popLog[j].priority
                      /\ popLog[i].id < popLog[j].id
    /\ (origPriority = <<5, 1, 5, 3>> /\ Len(popLog) = 4)
          => [i \in 1..4 |-> popLog[i].id] = <<1, 3, 4, 2>>

\* the four requests of priorities 5, 1, 5, 3 were pushed and then all popped
C3_Witness == origPriority = <<5, 1, 5, 3>> /\ Len(popLog) = 4

\* C4: _retry abandons a request (returns without calling enqueue_request) exactly
\* when its retry count has reached the maximum, and no request beyond the maximum
\* is ever in the frontier
C4_AbandonedOnlyAtMax ==
    /\ \A w \in Workers :
          lastRet[w].op \in {"_retry:gave_up", "_retry:no_scheduler"}
            => lastRet[w].request.retry_count = RETRY_SIMPLE_MAX
    /\ \A request \in Frontier : request.retry_count <= RETRY_SIMPLE_MAX

\* C5: the request put back by the k-th retry has the priority
\* original + priority_adjust * 2^(k-1)
C5_RetryPriority ==
    \A request \in Frontier \cup {req[w] : w \in Workers} :
        request.retry_count >= 1 =>
           request.priority = origPriority[request.id]
                              + RETRY_PRIORITY_ADJUST * Pow2(request.retry_count - 1)

\* a retry copy of `failed` is in the frontier after the step
RetryCopyInFrontierNext(failed) ==
    \E request \in FrontierNext :
        /\ request.id = failed.id /\ request.fp = failed.fp
        /\ request.retry_count = failed.retry_count + 1

\* C6: when the failure of a request below the maximum has been handled, its retry
\* copy (same fingerprint, retry count one higher) is in the frontier
C6_RetryCopyInFrontier ==
    [][\A w \in Workers :
         \* _retry returned without calling enqueue_request
         /\ \A failed \in inflight[w] \ inflight'[w] :
               (lastRet'[w].op = "_retry:no_scheduler")
                  => RetryCopyInFrontierNext(failed)
         \* enqueue_request returned to _retry
         /\ (pc[w] \in {"enq_seen", "enq_push"} /\ pc'[w] = "idle"
               /\ req[w].retry_count >= 1)
                  => req[w] \in FrontierNext]_vars

\* the lease of request r, held by the dead worker c, has run out by time t
LeaseExpired(c, r, t) ==
    /\ pc[c] = "crashed"
    /\ r \in inflight[c]
    /\ t >= poppedAt[r.id] + REQUEST_LEASE_SECONDS

\* C7: a request popped by a worker that died is back in the frontier, at its
\* priority, once its lease has run out: a next_request called after that either
\* returns it or leaves it in the frontier
C7_ExpiredLeaseReturns ==
    [][\A w \in Workers : \A c \in Workers : \A r \in inflight[c] :
          (/\ LeaseExpired(c, r, calledAt[w])
           /\ pc[w] = "nr_pop" /\ pc'[w] = "idle")
             => (r \in FrontierNext \/ lastRet'[w].request = r)]_vars

\* C8: when two workers have both passed the reclaim step of a next_request called
\* after the lease ran out, the frontier holds exactly one instance of the request
C8_ReclaimedExactlyOnce ==
    \A c \in Workers : \A r \in inflight[c] : \A w1, w2 \in Workers :
        (/\ w1 # w2
         /\ pc[w1] = "nr_pop" /\ pc[w2] = "nr_pop"
         /\ LeaseExpired(c, r, calledAt[w1])
         /\ LeaseExpired(c, r, calledAt[w2]))
          => Cardinality({k \in DOMAIN zset :
                            \E i \in DOMAIN zset[k] : zset[k][i].id = r.id}) = 1

\* the run's job id: the JOB_ID setting, or else the environment's SCRAPY_JOB
RunJobId(c) == IF c.JOB_ID \notin {None, ""} THEN c.JOB_ID ELSE c.SCRAPY_JOB
\* job-scoped mode is enabled and a job id is present
JobScoped(c) == c.USE_JOB_SCOPED_KEYS /\ RunJobId(c) \notin {None, ""}
\* the key the run is to use for the entity of the given suffix
ExpectedKey(c, suffix) ==
    IF JobScoped(c) THEN RunJobId(c) \o ":" \o c.spider \o suffix
    ELSE c.spider \o suffix

\* runs a and b are open, both job-scoped, under distinct job ids and one spider name
Isolated(a, b) ==
    /\ a # b
    /\ pc[a] # "new" /\ pc[b] # "new"
    /\ JobScoped(cfg[a]) /\ JobScoped(cfg[b])
    /\ RunJobId(cfg[a]) # RunJobId(cfg[b])
    /\ cfg[a].spider = cfg[b].spider

\* C9: two runs in job-scoped mode with distinct job ids and one spider name use
\* distinct keys for the queue, the dedup set and the stats hash, and no step of
\* one changes what the server holds under the keys of the other
C9_NamespaceIsolation ==
    /\ [](\A a, b \in Workers :
            Isolated(a, b) =>
               /\ queue[a] # queue[b]
               /\ df[a] # df[b]
               /\ StatsKey(a) # StatsKey(b)
               /\ Cardinality({queue[a], df[a], StatsKey(a)}) = 3)
    /\ [][\A a, b \in Workers :
            (Isolated(a, b) /\ pc'[a] # pc[a]) =>
               /\ (queue[b] \in DOMAIN zset') = (queue[b] \in DOMAIN zset)
               /\ queue[b] \in DOMAIN zset => zset'[queue[b]] = zset[queue[b]]
               /\ (df[b] \in DOMAIN dfset') = (df[b] \in DOMAIN dfset)
               /\ df[b] \in DOMAIN dfset => dfset'[df[b]] = dfset[df[b]]
               /\ (StatsKey(b) \in DOMAIN hash') = (StatsKey(b) \in DOMAIN hash)
               /\ StatsKey(b) \in DOMAIN hash => hash'[StatsKey(b)] = hash[StatsKey(b)]]_vars

\* both runs have enqueued a request of the same fingerprint, each under its own
\* keys, and the first has flushed and closed while the other's entries are still there
C9_Witness ==
    /\ Isolated("w1", "w2")
    /\ pc["w1"] = "closed"
    /\ StatsKey("w1") \in DOMAIN hash
    /\ queue["w1"] \notin DOMAIN zset
    /\ df["w1"] \notin DOMAIN dfset
    /\ queue["w2"] \in DOMAIN zset
    /\ df["w2"] \in DOMAIN dfset
    /\ StatsKey("w2") \in DOMAIN hash

\* C10: get_effective_key gives the expansion of the job-scoped template exactly
\* when job-scoped mode is enabled and a job id is present, and the expansion of the
\* legacy template otherwise: the queue is bound to that key and the counters are
\* written under that key
C10_EffectiveKey ==
    \A w \in Workers :
        pc[w] # "new" =>
           /\ queue[w] = ExpectedKey(cfg[w], ":requests")
           /\ StatsKey(w) = ExpectedKey(cfg[w], ":stats")
           /\ DOMAIN zset \subseteq {ExpectedKey(cfg[w], ":requests")}
           /\ DOMAIN hash \subseteq {ExpectedKey(cfg[w], ":stats")}

\* a run with the mode enabled but no job id has pushed under the legacy key
C10_Witness ==
    \E w \in Workers :
        /\ cfg[w].USE_JOB_SCOPED_KEYS /\ ~JobScoped(cfg[w])
        /\ queue[w] \in DOMAIN zset
        /\ StatsKey(w) \in DOMAIN hash

\* the placeholders for which expand_key_template has a value
Available(spider_name, job_id) ==
    (IF spider_name \notin {None, ""} THEN {"spider", "name"} ELSE {})
    \cup (IF job_id \notin {None, ""} THEN {"job_id"} ELSE {})
    \cup {"timestamp"}

\* C11: expand_key_template returns: when the template names a placeholder for
\* which there is no value (no job id, no spider name) what it returns is the text
\* of the template, unchanged
C11_UnexpandableLeftAsIs ==
    (call.op = "expand_key_template" /\ result # NoResult) =>
       /\ result.kind = "returned"
       /\ ~(call.template.names \subseteq Available(call.spider_name, call.job_id))
             => result.value = call.template.text

\* the job-scoped queue template was expanded for a spider without a job id, and the
\* name template without a spider name
C11_Witness ==
    /\ call.op = "expand_key_template"
    /\ result # NoResult
    /\ \/ /\ call.template.text = "%(job_id)s:%(spider)s:requests"
          /\ call.spider_name = "s1" /\ call.job_id = None
          /\ result.value = "%(job_id)s:%(spider)s:requests"
       \/ /\ call.template.text = "%(name)s:items"
          /\ call.spider_name = None /\ call.job_id = "j1"
          /\ result.value = "%(name)s:items"

\* C12: when the workers' inc_value calls on the enqueued counter have all finished,
\* the counter is the start value 0 plus the number of calls, each adding 1
C12_CounterIsSum ==
    (\A w \in {"w1", "w2"} : pc[w] \in {"new", "idle"} /\ cfg[w] = StatsSettings)
       => (nextId > 1 => get_value("w1", ENQUEUED, 0) = nextId - 1)

\* C13: has_pending_requests returns true exactly when the frontier is not empty; the
\* run that resumes a backlog of 3 without enqueueing is told true as long as it
\* has popped fewer than 3 requests and false once it has popped the third
C13_PendingIffNonEmpty ==
    \A w \in Workers :
        (pc[w] = "idle" /\ lastRet[w].op = "has_pending_requests") =>
           /\ lastRet[w].ok <=> Len(ZGet(queue[w])) > 0
           /\ (/\ w = "w2" /\ cfg["w1"].persist /\ nextId = 4
               /\ Len(ZGet(queue[w])) + Cardinality(inflight[w]) = 3)
                 => (lastRet[w].ok <=> Cardinality(inflight[w]) < 3)

\* the second run found the 3 requests the first one left, popped them all, and was
\* then told that nothing is pending
C13_Witness ==
    /\ pc["w1"] = "closed" /\ cfg["w1"].persist /\ inflight["w1"] = {}
    /\ nextId = 4
    /\ Cardinality(inflight["w2"]) = 3
    /\ pc["w2"] = "idle"
    /\ lastRet["w2"] = Returned("has_pending_requests", FALSE, NoRequest)

\* the step of w ends its close
CloseReturns(w) == pc[w] # "closed" /\ pc'[w] = "closed"

\* the last call of the closed run u and the last call of the run w that followed it
\* in the same namespace are enqueue_request calls, one right after the other, for
\* one fingerprint, neither opting out of dedup
EnqueuedAcrossClose(u, w) ==
    /\ u # w
    /\ pc[u] = "closed" /\ pc[w] = "idle"
    /\ df[u] = df[w] /\ queue[u] = queue[w]
    /\ EnqueueAnswered(u) /\ EnqueueAnswered(w)
    /\ lastRet[w].request.fp = lastRet[u].request.fp
    /\ lastRet[w].request.id = lastRet[u].request.id + 1

C16_EnqueuedCountsPushes ==
    (pc["w1"] = "idle" /\ cfg["w1"].stats) =>
       get_value("w1", ENQUEUED, 0)
          = Len(ZGet(queue["w1"])) + Cardinality(DOMAIN poppedAt)

\* C18: a failure of the server in the dedup check or in the push of one request
\* does not leave enqueue_request as an exception
C18_EnqueueFailureAbsorbed ==
    \A w \in Workers : lastRet[w].op # "enqueue_request:raised"

\* the step of w is the return of next_request
NextRequestReturned(w) == pc[w] \in {"nr_pop", "nr_hincrby"} /\ pc'[w] = "idle"

C19_GiveUpCounted ==
    \A w \in Workers :
        (lastRet[w].op = "_retry:gave_up" /\ cfg[w].stats) =>
           /\ lastRet[w].request.retry_count >= RETRY_SIMPLE_MAX
           /\ get_value(w, RETRY_GAVE_UP, 0) >= 1

\* no request of the identity of `request` with a higher retry count exists after the step
RetryCountKept(request) ==
    \A other \in FrontierNext \cup {req'[w] : w \in Workers} :
        other.id = request.id => other.retry_count <= request.retry_count

\* C20: a response whose status is none of 500, 502, 503, 504, 408, 429, and an
\* exception that is neither a timeout, a DNS lookup error, a refused, closed, failed
\* or lost connection nor an IgnoreRequest, lead to no call of enqueue_request and
\* leave the frontier and the request's retry count as they were
C20_OnlyEligibleRequeued ==
    [][\A w \in Workers : \A request \in inflight[w] :
          /\ \A status \in StatusCodes \ {500, 502, 503, 504, 408, 429} :
                ProcessResponse(w, request, status) =>
                   /\ pc'[w] = "idle"
                   /\ zset' = zset /\ dfset' = dfset
                   /\ RetryCountKept(request)
          /\ \A exception \in Exceptions \ {"TimeoutError", "DNSLookupError",
                                            "ConnectionRefusedError", "ConnectionDone",
                                            "ConnectError", "ConnectionLost",
                                            "IgnoreRequest"} :
                ProcessException(w, request, exception) =>
                   /\ pc'[w] = "idle"
                   /\ zset' = zset /\ dfset' = dfset
                   /\ RetryCountKept(request)]_vars

\* a request answered 200, and one that raised ValueError, were passed on while the
\* frontier held another request
C20_Witness ==
    \E w \in Workers :
        /\ lastRet[w].op \in {"process_response", "process_exception"}
        /\ pc[w] = "idle"
        /\ SchedulerLen(w) > 0
        /\ lastRet[w].request.id > 0

\* C21: when the construction of the queue fails in open, what leaves open is a
\* ValueError whose message carries the configured queue class path, whatever the
\* construction raised; the scheduler is then without queue, nothing is in the
\* frontier and no enqueue_request returns true
C21_OpenFailureNamed ==
    \A w \in Workers :
        /\ lastRet[w].op = "open:raised" =>
              /\ lastRet[w].error = "ValueError"
              /\ lastRet[w].names = cfg[w].queue_cls
        /\ (pc[w] # "new" /\ queue[w] = None) =>
              /\ zset = <<>>
              /\ ~(lastRet[w].op = "enqueue_request" /\ lastRet[w].ok)

\* C22: in job-scoped mode the queue of an open scheduler that was constructed with a
\* job_id argument is named by that job id (self.job_id), and two schedulers of one
\* spider constructed with different job_id arguments have queues under different keys
C22_JobIdArgumentNamesQueue ==
    /\ \A w \in Workers :
          (/\ queue[w] # None /\ cfg[w].USE_JOB_SCOPED_KEYS
           /\ cfg[w].job_id \notin {None, ""})
            => queue[w] = SchedulerJobId(w) \o ":" \o cfg[w].spider \o ":requests"
    /\ \A a, b \in Workers :
          (/\ queue[a] # None /\ queue[b] # None
           /\ cfg[a].USE_JOB_SCOPED_KEYS /\ cfg[b].USE_JOB_SCOPED_KEYS
           /\ cfg[a].spider = cfg[b].spider
           /\ cfg[a].job_id \notin {None, ""} /\ cfg[b].job_id \notin {None, ""}
           /\ cfg[a].job_id # cfg[b].job_id)
            => queue[a] # queue[b]

\* the retry copy of the request process_response was called for has been admitted
\* to the frontier by the enqueue_request that _retry called
Requeued(w) ==
    /\ lastRet[w].op = "enqueue_request" /\ lastRet[w].ok
    /\ lastRet[w].request.id = mwRet[w].request.id
    /\ lastRet[w].request.retry_count = mwRet[w].request.retry_count + 1

\* C23: when process_response, called with a response of a retry-eligible status for
\* a request below the maximum retry count, has re-queued the request, it does not
\* return the failed response to the downstream caller
C23_RetriedNotDelivered ==
    \A w \in Workers :
        (/\ pc[w] = "idle"
         /\ mwRet[w].op = "process_response"
         /\ mwRet[w].cause \in {500, 502, 503, 504, 408, 429}
         /\ mwRet[w].request.retry_count < RETRY_SIMPLE_MAX
         /\ Requeued(w))
          => mwRet[w].returns # "response"

\* worker c died inside enqueue_request for a request without dedup opt-out, after
\* the dupefilter had recorded it and before the push
DiedBeforePush(c) == pc[c] = "crashed" /\ req[c] # NoRequest /\ ~req[c].dont_filter

\* the requests handed out by next_request and not yet answered
HandedOut == UNION {inflight[w] : w \in Workers}

C25_MaxValueKeepsMaximum ==
    (\A w \in {"w1", "w2"} : pc[w] \in {"new", "idle"}) =>
       \A w \in {"w1", "w2"} :
           lastRet[w].op = "max_value" =>
              get_value(w, "request_depth_max", 0) >= frame[w].value

\* the requests that exist: in the frontier, handed out, or in a handler's hands
Instances == (Frontier \cup HandedOut \cup {req[w] : w \in Workers}) \ {NoRequest}
InstancesNext ==
    (FrontierNext \cup UNION {inflight'[w] : w \in Workers} \cup {req'[w] : w \in Workers})
       \ {NoRequest}

\* C26: every request in the frontier has a retry count from 0 to the maximum; over a
\* step the retry count of a request stays or grows by one, and the copy _retry makes
\* of a failed request has that request's retry count plus one
C26_RetryCountStepsByOne ==
    /\ [](\A request \in Frontier : request.retry_count \in 0..RETRY_SIMPLE_MAX)
    /\ [][\A request \in Instances : \A next \in InstancesNext :
            next.id = request.id =>
               next.retry_count \in {request.retry_count, request.retry_count + 1}]_vars
    /\ [][\A w \in Workers : \A failed \in inflight[w] \ inflight'[w] :
            pc'[w] = "enq_seen" =>
               /\ req'[w].id = failed.id
               /\ req'[w].retry_count = failed.retry_count + 1]_vars

\* a request that failed three times is in the frontier with retry count 3
C26_Witness ==
    \E request \in Frontier : request.retry_count = RETRY_SIMPLE_MAX

\* no worker is inside enqueue_request, next_request or flush
Quiescent == \A w \in Workers : pc[w] \in {"new", "idle", "closed"}

\* C27: whenever no call is in progress, every fingerprint in a dedup set is the
\* fingerprint of a request that is in the frontier or was handed out by next_request
C27_SeenImpliesQueuedOrHandedOut ==
    Quiescent =>
       \A k \in DOMAIN dfset : \A fp \in dfset[k] :
           \E request \in Frontier \cup HandedOut : request.fp = fp

\* how many times next_request has handed out a request of the given identity
HandOuts(id) == IF id \in DOMAIN popLog THEN popLog[id] ELSE 0

RunDry ==
    /\ zset = <<>>
    /\ \A w \in Workers : pc[w] # "new" => ~has_pending_requests(w)

\* C28: with fair workers and a finite set of requests in the frontier, none added but
\* the retries, the frontier becomes
\* empty, has_pending_requests false, and stays so; no request is handed out by
\* next_request more than the maximum retry count plus one times
C28_FrontierRunsDry ==
    /\ [](\A id \in 1..MaxLiveTasks : HandOuts(id) <= RETRY_SIMPLE_MAX + 1)
    /\ <>[]RunDry

\* one request was handed out four times and another fewer times, and the frontier is
\* empty with nothing left in a handler's hands
C28_Witness ==
    /\ \E id \in 1..MaxLiveTasks : HandOuts(id) = RETRY_SIMPLE_MAX + 1
    /\ \E id \in 1..MaxLiveTasks : HandOuts(id) \in 1..RETRY_SIMPLE_MAX
    /\ RunDry
    /\ \A w \in Workers : req[w] = NoRequest /\ inflight[w] = {}

====
